---- MODULE Spec2Model ----
(***************************************************************************)
(* Snippet synthesis of the TypeScript worker:                             *)
(* TypeScriptWorker.getCompletionEntryDetailsAndSnippet with its inner     *)
(* closures renderDefaultVal and renderParameter.                          *)
(*                                                                         *)
(* The repository holds two revisions of the worker:                       *)
(*   src/unnamed/part_001  (part_001 below)                                *)
(*   src/src/worker.ts     (worker below, definitions suffixed _worker)    *)
(* Both are modelled; the variable impl says which one serves a call.      *)
(*                                                                         *)
(* A JavaScript string is a sequence of one-character strings, so that the *)
(* regular expressions, trim, slice and join are computed character by     *)
(* character.                                                              *)
(***************************************************************************)
EXTENDS Naturals, Sequences, FiniteSets, TLC

VARIABLES impl, pc, call, parameter, result, served, _compilerOptions, _extraLibs

\* served is the log of the requests the worker has answered, each with its
\* outcome
vars == <<impl, pc, call, parameter, result, served, _compilerOptions, _extraLibs>>

----------------------------------------------------------------------------
(* Bounds of the model *)

\* longest candidate list, in characters, enumerated exhaustively after eg:
MaxBodyLen == 3
\* most parameters of a call signature
MaxParams == 2

\* most requests one worker is followed through
MaxRequests == 3

----------------------------------------------------------------------------
(* JavaScript strings and the regular-expression character classes *)

\* \s of a JavaScript regular expression, and what String.prototype.trim strips
IsSpace(c) == c \in {" ", "\n"}

\* a line terminator: the one thing the dot of an expression does not match
IsLineTerminator(c) == c = "\n"

\* \w, as far as the alphabet of the model goes: letters, digits, underscore
IsWordChar(c) == c \in {"e", "g", "E", "G", "l", "x", "d", "s", "5", "6", "7", "_"}

\* the i flag: letters are compared ignoring case
ToLower(c) == IF c = "E" THEN "e" ELSE IF c = "G" THEN "g" ELSE c

\* the least element of a non-empty set of naturals
Min(S) == CHOOSE m \in S : \A n \in S : m <= n
Max(S) == CHOOSE m \in S : \A n \in S : m >= n

\* String.prototype.trim
trim(s) ==
  LET keep == {i \in 1..Len(s) : ~IsSpace(s[i])}
  IN  IF keep = {} THEN <<>> ELSE SubSeq(s, Min(keep), Max(keep))

\* the end of the line that holds position p: where a greedy dot-run stops
LineEnd(s, p) ==
  LET nl == {q \in p..Len(s) : IsLineTerminator(s[q])}
  IN  IF nl = {} THEN Len(s) ELSE Min(nl) - 1

Undefined == [defined |-> FALSE, text |-> <<>>]
Str(t) == [defined |-> TRUE, text |-> t]

----------------------------------------------------------------------------
(* part_001, line 322: the marker expression: a word boundary, eg, an       *)
(* optional period, a colon, white space, then one or more characters of    *)
(* one line as group 1, flag i                                              *)

\* MarkerEnd with the colon optional (a mutant)
MarkerEnd_colonOptional(doc, i) ==
  IF /\ i + 1 <= Len(doc)
     /\ ToLower(doc[i]) = "e" /\ ToLower(doc[i + 1]) = "g"
     /\ (i = 1 \/ ~IsWordChar(doc[i - 1]))
  THEN IF i + 3 <= Len(doc) /\ doc[i + 2] = "." /\ doc[i + 3] = ":" THEN i + 4
       ELSE IF i + 2 <= Len(doc) /\ doc[i + 2] \in {":", "."} THEN i + 3
       ELSE i + 2
  ELSE 0

\* where the text after eg, an optional period and the colon starts, when the
\* marker matches at i (0 when it does not)
MarkerEnd(doc, i) ==
  IF /\ i + 1 <= Len(doc)
     /\ ToLower(doc[i]) = "e" /\ ToLower(doc[i + 1]) = "g"
     /\ (i = 1 \/ ~IsWordChar(doc[i - 1]))
  THEN IF i + 3 <= Len(doc) /\ doc[i + 2] = "." /\ doc[i + 3] = ":" THEN i + 4
       ELSE IF i + 2 <= Len(doc) /\ doc[i + 2] = ":" THEN i + 3
       ELSE 0
  ELSE 0

\* where group 1 starts for a marker that ends before k: the white-space run
\* is greedy and gives characters back until group 1 finds a character that
\* is no line terminator (0 when there is none)
GroupStart(doc, k) ==
  LET rest == {q \in k..Len(doc) : ~IsSpace(doc[q])}
      w == IF rest = {} THEN Len(doc) + 1 ELSE Min(rest)
      back == {q \in k..(w - 1) : ~IsLineTerminator(doc[q])}
  IN  IF w <= Len(doc) THEN w
      ELSE IF back = {} THEN 0 ELSE Max(back)

\* the leftmost position at which the whole expression matches
paramExamples(parameterDoc) ==
  LET ok == {i \in 1..Len(parameterDoc) :
               /\ MarkerEnd(parameterDoc, i) # 0
               /\ GroupStart(parameterDoc, MarkerEnd(parameterDoc, i)) # 0}
  IN  IF ok = {} THEN Undefined
      ELSE LET p == GroupStart(parameterDoc, MarkerEnd(parameterDoc, Min(ok)))
           IN  Str(SubSeq(parameterDoc, p, LineEnd(parameterDoc, p)))

(* part_001, line 324: the token expression reg, executed once from lastIndex *)
(* 0: a double-quoted candidate (group 1), else a single-quoted candidate     *)
(* (group 2), else a run of characters other than white space and comma       *)
(* (group 3)                                                                  *)

IsSeparator(c) == IsSpace(c) \/ c = ","

\* the closing quote of a quoted candidate that opens at p (0 when none)
ClosingQuote(s, p) ==
  LET qs == {q \in (p + 1)..Len(s) : s[q] = s[p]}
  IN  IF qs = {} THEN 0 ELSE Min(qs)

\* RunEnd with runs that end at a comma only (a mutant)
RunEnd_commaOnly(s, p) ==
  LET seps == {q \in p..Len(s) : s[q] = ","}
  IN  IF seps = {} THEN Len(s) ELSE Min(seps) - 1

\* the end of the run of [^\s,] that starts at p
RunEnd(s, p) ==
  LET seps == {q \in p..Len(s) : IsSeparator(s[q])}
  IN  IF seps = {} THEN Len(s) ELSE Min(seps) - 1

\* the groups of the first match: [found, g1, g2, g3], a group Undefined when
\* its alternative did not take part
match(s) ==
  LET starts == {p \in 1..Len(s) : ~IsSeparator(s[p])}
      p == Min(starts)
      q == ClosingQuote(s, p)
  IN  IF starts = {}
      THEN [found |-> FALSE, g1 |-> Undefined, g2 |-> Undefined, g3 |-> Undefined]
      ELSE IF s[p] = "\"" /\ q # 0
      THEN [found |-> TRUE, g1 |-> Str(SubSeq(s, p + 1, q - 1)),
            g2 |-> Undefined, g3 |-> Undefined]
      ELSE IF s[p] = "'" /\ q # 0
      THEN [found |-> TRUE, g1 |-> Undefined,
            g2 |-> Str(SubSeq(s, p + 1, q - 1)), g3 |-> Undefined]
      ELSE [found |-> TRUE, g1 |-> Undefined, g2 |-> Undefined,
            g3 |-> Str(SubSeq(s, p, RunEnd(s, p)))]

\* JavaScript truthiness of a string-or-undefined value
Truthy(v) == v.defined /\ v.text # <<>>

\* lines 322-333: the value the example block returns, or [returns |-> FALSE]
\* when control falls through to the type rules
exampleReturn(parameterDoc) ==
  LET pe == paramExamples(parameterDoc)
      m == match(trim(pe.text))
  IN  IF ~pe.defined \/ ~m.found THEN [returns |-> FALSE, value |-> Undefined]
      ELSE IF Truthy(m.g1) \/ Truthy(m.g2)
      THEN [returns |-> TRUE,
            value |-> Str(<<"\"">> \o (IF Truthy(m.g1) THEN m.g1.text ELSE m.g2.text)
                          \o <<"\"">>)]
      ELSE [returns |-> TRUE, value |-> m.g3]

----------------------------------------------------------------------------
(* worker, lines 259-269: the marker expression (any characters, eg:, then  *)
(* the rest of the line as group 1, flag i) and the token expression (runs  *)
(* of characters other than comma and space)                                *)

\* eg: in any letter case at i
MarkerAt_worker(doc, i) ==
  /\ i + 2 <= Len(doc)
  /\ ToLower(doc[i]) = "e" /\ ToLower(doc[i + 1]) = "g" /\ doc[i + 2] = ":"

\* the leading dot-run is greedy and stays on one line: the match starts at the first
\* position whose line holds a marker, and takes the last marker of that line
paramExamples_worker(parameterDoc) ==
  LET markers == {i \in 1..Len(parameterDoc) : MarkerAt_worker(parameterDoc, i)}
      first == Min(markers)
      last == Max({i \in markers : i <= LineEnd(parameterDoc, first)})
  IN  IF markers = {} THEN Undefined
      ELSE Str(SubSeq(parameterDoc, last + 3, LineEnd(parameterDoc, last)))

IsSeparator_worker(c) == c \in {",", " "}

\* examples[0]: the first run of characters other than comma and space
examples_worker(s) ==
  LET starts == {p \in 1..Len(s) : ~IsSeparator_worker(s[p])}
      p == Min(starts)
      seps == {q \in p..Len(s) : IsSeparator_worker(s[q])}
  IN  IF starts = {} THEN Undefined
      ELSE Str(SubSeq(s, p, IF seps = {} THEN Len(s) ELSE Min(seps) - 1))

\* lines 259-270
exampleReturn_worker(parameterDoc) ==
  LET pe == paramExamples_worker(parameterDoc)
      ex == examples_worker(pe.text)
  IN  IF ~pe.defined \/ ~ex.defined THEN [returns |-> FALSE, value |-> Undefined]
      ELSE [returns |-> TRUE, value |-> ex]

----------------------------------------------------------------------------
(* The type checker's view of a parameter: ts.Type, ts.Symbol, ts.Declaration *)

\* ts.TypeFlags and ts.ObjectFlags are bit masks; a mask is the set of its bit
\* positions, and (a & b) is non-zero exactly when the sets meet.  Positions
\* as in the TypeScript 2.x services the worker imports.
TypeFlags_Any == {0}
TypeFlags_String == {1}
TypeFlags_Number == {2}
TypeFlags_Boolean == {3}
TypeFlags_Enum == {4}
TypeFlags_StringLiteral == {5}
TypeFlags_NumberLiteral == {6}
TypeFlags_BooleanLiteral == {7}
TypeFlags_EnumLiteral == {8}
TypeFlags_Void == {10}
TypeFlags_TypeParameter == {14}
TypeFlags_Object == {15}
TypeFlags_Union == {16}
TypeFlags_Index == {18}
TypeFlags_NumberLike == TypeFlags_Number \cup TypeFlags_NumberLiteral \cup TypeFlags_Enum
TypeFlags_StringLike == TypeFlags_String \cup TypeFlags_StringLiteral \cup TypeFlags_Index
TypeFlags_BooleanLike == TypeFlags_Boolean \cup TypeFlags_BooleanLiteral
ObjectFlags_Interface == {1}
ObjectFlags_Reference == {2}
ObjectFlags_Tuple == {3}
ObjectFlags_Anonymous == {4}

\* (a & b) as a condition
And(a, b) == a \cap b # {}

NoDeclarations == [defined |-> FALSE, list |-> <<>>]
NoSymbol == [defined |-> FALSE, name |-> <<>>, declarations |-> NoDeclarations]
NoMemberTypes == [defined |-> FALSE, byValue |-> <<>>]

\* a ts.Type with nothing set; the samples below override fields of it
BaseType ==
  [defined |-> TRUE, flags |-> {}, objectFlags |-> {}, symbol |-> NoSymbol,
   memberTypes |-> NoMemberTypes, intrinsicName |-> "",
   callSignatures |-> <<>>, typeString |-> <<>>]

\* typeChecker.getTypeOfSymbolAtLocation gave nothing
UndefinedType == [BaseType EXCEPT !.defined = FALSE]

----------------------------------------------------------------------------
(* part_001 lines 301-315, worker lines 238-252 *)

defaultImgLit == <<"\n", "\t", ".", " ", ".", " ", ".", " ", ".", " ", ".", "\n", "\t", ".", " ", ".", " ", ".", " ", ".", " ", ".", "\n", "\t", ".", " ", ".", " ", "#", " ", ".", " ", ".", "\n", "\t", ".", " ", ".", " ", ".", " ", ".", " ", ".", "\n", "\t", ".", " ", ".", " ", ".", " ", ".", " ", ".", "\n", "\t">>

\* the grave accent that delimits a template literal (one character)
Backtick == <<"grave">>

\* Placeholder numbering its tab stop 2 (a mutant)
Placeholder_secondTabStop(name) == <<"$", "{", "2", ":">> \o name \o <<"}">>

\* the placeholder of part_001: dollar, brace, 1, colon, the name, brace
Placeholder(name) == <<"$", "{", "1", ":">> \o name \o <<"}">>

\* the placeholder of worker: the name in double braces
Placeholder_worker(name) == <<"{", "{">> \o name \o <<"}", "}">>

leds == <<"l", "e", "d", "s">>

\* renderDefaultVal looking at the name before the type (a mutant)
renderDefaultVal_nameFirst(name, type) ==
  IF name = leds THEN Backtick \o defaultImgLit \o Backtick
  ELSE CASE type = "number" -> <<"0">>
         [] type = "boolean" -> <<"f", "a", "l", "s", "e">>
         [] type = "string" -> <<"\"", "\"">>
         [] OTHER -> Placeholder(name)

renderDefaultVal(name, type) ==
  CASE type = "number" -> <<"0">>
    [] type = "boolean" -> <<"f", "a", "l", "s", "e">>
    [] type = "string" ->
         IF name = leds THEN Backtick \o defaultImgLit \o Backtick ELSE <<"\"", "\"">>
    [] OTHER -> Placeholder(name)

renderDefaultVal_worker(name, type) ==
  CASE type = "number" -> <<"0">>
    [] type = "boolean" -> <<"f", "a", "l", "s", "e">>
    [] type = "string" ->
         IF name = leds THEN Backtick \o defaultImgLit \o Backtick ELSE <<"\"", "\"">>
    [] OTHER -> Placeholder_worker(name)

----------------------------------------------------------------------------
(* renderParameter: what a call of it does.  kind is string (text returned), *)
(* undefined (the value undefined returned) or TypeError (a property of      *)
(* undefined was read and the call threw)                                    *)

Returns(t) == [kind |-> "string", text |-> t]
ReturnsUndefined == [kind |-> "undefined", text |-> <<>>]
Throws == [kind |-> "TypeError", text |-> <<>>]

\* part_001 lines 343-349: the first declaration that is an enum declaration
\* (0 when none)
enumDeclaration(enumDeclarations) ==
  LET is == {i \in 1..Len(enumDeclarations) :
               enumDeclarations[i].kind = "EnumDeclaration"}
  IN  IF is = {} THEN 0 ELSE Min(is)

\* part_001 lines 339-356: enumValue, given that the declarations are there
enumValue(enumDeclarations) ==
  LET d == enumDeclaration(enumDeclarations)
      members == enumDeclarations[d].members
  IN  IF d # 0 /\ members.defined /\ Len(members.list) > 0
         /\ members.list[1].nameKind = "Identifier"
      THEN Str(members.list[1].text)
      ELSE Undefined

\* String.prototype.lastIndexOf of a colon, 1-based (0 for JavaScript's -1)
lastIndexOfColon(s) ==
  LET cs == {i \in 1..Len(s) : s[i] = ":"}
  IN  IF cs = {} THEN 0 ELSE Max(cs)

\* functionLiteral testing string-like before number-like (a mutant)
functionLiteral_stringFirst(parameterType) ==
  LET functionSignature == parameterType.callSignatures
      returnFlags == functionSignature[1].returnFlags
      displayPartsStr == functionSignature[1].text
      returnValue ==
        IF Len(functionSignature) = 0 THEN <<"$", "0">>
        ELSE IF And(returnFlags, TypeFlags_StringLike) THEN <<"r", "e", "t", "u", "r", "n", " ", "\"", "\"", ";", "$", "0">>
        ELSE IF And(returnFlags, TypeFlags_NumberLike) THEN <<"r", "e", "t", "u", "r", "n", " ", "0", ";", "$", "0">>
        ELSE IF And(returnFlags, TypeFlags_BooleanLike) THEN <<"r", "e", "t", "u", "r", "n", " ", "f", "a", "l", "s", "e", ";", "$", "0">>
        ELSE <<"$", "0">>
      functionArgument ==
        IF Len(functionSignature) = 0 THEN <<"(", ")">>
        ELSE SubSeq(displayPartsStr, 1, lastIndexOfColon(displayPartsStr) - 1)
  IN  <<"f", "u", "n", "c", "t", "i", "o", "n", " ">> \o functionArgument \o <<" ", "{", "\n", "\t">> \o returnValue
        \o <<"\n", "}">>

\* part_001 lines 363-380: the function literal of an anonymous object type
functionLiteral(parameterType) ==
  LET functionSignature == parameterType.callSignatures
      returnFlags == functionSignature[1].returnFlags
      displayPartsStr == functionSignature[1].text
      returnValue ==
        IF Len(functionSignature) = 0 THEN <<"$", "0">>
        ELSE IF And(returnFlags, TypeFlags_NumberLike) THEN <<"r", "e", "t", "u", "r", "n", " ", "0", ";", "$", "0">>
        ELSE IF And(returnFlags, TypeFlags_StringLike) THEN <<"r", "e", "t", "u", "r", "n", " ", "\"", "\"", ";", "$", "0">>
        ELSE IF And(returnFlags, TypeFlags_BooleanLike) THEN <<"r", "e", "t", "u", "r", "n", " ", "f", "a", "l", "s", "e", ";", "$", "0">>
        ELSE <<"$", "0">>
      functionArgument ==
        IF Len(functionSignature) = 0 THEN <<"(", ")">>
        ELSE SubSeq(displayPartsStr, 1, lastIndexOfColon(displayPartsStr) - 1)
  IN  <<"f", "u", "n", "c", "t", "i", "o", "n", " ">> \o functionArgument \o <<" ", "{", "\n", "\t">> \o returnValue
        \o <<"\n", "}">>

\* String.prototype.indexOf of the two characters [], 1-based (0 for -1)
indexOfBrackets(s) ==
  LET bs == {i \in 1..(Len(s) - 1) : s[i] = "[" /\ s[i + 1] = "]"}
  IN  IF bs = {} THEN 0 ELSE Min(bs)

\* part_001 line 384, worker line 304: the array test; flags is the type's
\* TypeFlags, which the code masks with ObjectFlags.Tuple
isArrayOrTuple(flags, typeString) ==
  \/ And(flags, ObjectFlags_Tuple)
  \/ (indexOfBrackets(typeString) # 0
      /\ indexOfBrackets(typeString) - 1 = Len(typeString) - 2)

\* part_001 lines 334-396: the type rules, reached when the example block
\* returned nothing
typeRules(name, parameterType) ==
  LET flags == parameterType.flags
      enumParameter == parameterType
  IN  IF ~(parameterType.defined /\ flags # {}) THEN Returns(Placeholder(name))
      ELSE IF And(flags, TypeFlags_EnumLiteral)
      THEN IF ~enumParameter.symbol.defined THEN Returns(Placeholder(name))
           ELSE IF ~enumParameter.symbol.declarations.defined THEN Throws
           ELSE LET v == enumValue(enumParameter.symbol.declarations.list)
                IN  IF Truthy(v)
                    THEN Returns(parameterType.symbol.name \o <<".">> \o v.text)
                    ELSE Returns(Placeholder(name))
      ELSE IF And(flags, TypeFlags_Object)
      THEN IF And(parameterType.objectFlags, ObjectFlags_Anonymous)
           THEN Returns(functionLiteral(parameterType))
           ELSE IF isArrayOrTuple(flags, parameterType.typeString)
           THEN Returns(<<"[", "]">>)
           ELSE Returns(Placeholder(name))
      ELSE IF And(flags, TypeFlags_String \cup TypeFlags_Number
                           \cup TypeFlags_Boolean \cup TypeFlags_Void)
      THEN Returns(renderDefaultVal(name, parameterType.intrinsicName))
      ELSE Returns(Placeholder(name))

\* renderParameter with the enum rule tried before the example (a mutant)
renderParameter_enumFirst(p) ==
  LET ex == exampleReturn(p.doc)
  IN  IF And(p.type.flags, TypeFlags_EnumLiteral) \/ ~ex.returns
      THEN typeRules(p.name, p.type)
      ELSE IF ex.value.defined THEN Returns(ex.value.text) ELSE ReturnsUndefined

\* part_001 lines 317-397
renderParameter(p) ==
  LET ex == exampleReturn(p.doc)
  IN  IF ex.returns
      THEN IF ex.value.defined THEN Returns(ex.value.text) ELSE ReturnsUndefined
      ELSE typeRules(p.name, p.type)

----------------------------------------------------------------------------
(* worker lines 254-317 *)

\* worker line 276: memberTypes[1] when the enum type has member types and
\* one of them is stored under 1
enumValue_worker(enumParameter) ==
  IF enumParameter.memberTypes.defined
     /\ 1 \in DOMAIN enumParameter.memberTypes.byValue
  THEN Str(enumParameter.memberTypes.byValue[1])
  ELSE Undefined

\* worker lines 283-300
functionLiteral_worker(parameterType) ==
  LET functionSignature == parameterType.callSignatures
      returnFlags == functionSignature[1].returnFlags
      displayPartsStr == functionSignature[1].text
      returnValue ==
        IF Len(functionSignature) = 0 THEN <<>>
        ELSE IF And(returnFlags, TypeFlags_NumberLike) THEN <<"r", "e", "t", "u", "r", "n", " ", "0", ";">>
        ELSE IF And(returnFlags, TypeFlags_StringLike) THEN <<"r", "e", "t", "u", "r", "n", " ", "\"", "\"", ";">>
        ELSE IF And(returnFlags, TypeFlags_BooleanLike) THEN <<"r", "e", "t", "u", "r", "n", " ", "f", "a", "l", "s", "e", ";">>
        ELSE <<>>
      functionArgument ==
        IF Len(functionSignature) = 0 THEN <<>>
        ELSE SubSeq(displayPartsStr, 1, lastIndexOfColon(displayPartsStr) - 1)
  IN  functionArgument \o <<" ", "=", ">", " ", "{", "\n", " ", " ", " ", " ", "{", "{">> \o returnValue \o <<"}", "}", "\n", "}">>

\* worker lines 271-316
typeRules_worker(name, parameterType) ==
  LET flags == parameterType.flags
      v == enumValue_worker(parameterType)
  IN  IF ~(parameterType.defined /\ flags # {})
      THEN Returns(Placeholder_worker(name))
      ELSE IF And(flags, TypeFlags_Enum)
      THEN IF ~Truthy(v) THEN Returns(Placeholder_worker(name))
           ELSE IF ~parameterType.symbol.defined THEN Throws
           ELSE Returns(parameterType.symbol.name \o <<".">> \o v.text)
      ELSE IF And(flags, TypeFlags_Object)
      THEN IF And(parameterType.objectFlags, ObjectFlags_Anonymous)
           THEN Returns(functionLiteral_worker(parameterType))
           ELSE IF isArrayOrTuple(flags, parameterType.typeString)
           THEN Returns(<<"[", "]">>)
           ELSE Returns(Placeholder_worker(name))
      ELSE IF And(flags, TypeFlags_String \cup TypeFlags_Number
                           \cup TypeFlags_Boolean \cup TypeFlags_Void)
      THEN Returns(renderDefaultVal_worker(name, parameterType.intrinsicName))
      ELSE Returns(Placeholder_worker(name))

\* worker lines 254-317
renderParameter_worker(p) ==
  LET ex == exampleReturn_worker(p.doc)
  IN  IF ex.returns THEN Returns(ex.value.text)
      ELSE typeRules_worker(p.name, p.type)

----------------------------------------------------------------------------
(* The snapshots the type checker can hand over: sample types *)

Identifier(t, v) == [nameKind |-> "Identifier", text |-> t, value |-> v]
StringName(t, v) == [nameKind |-> "StringLiteral", text |-> t, value |-> v]

EnumDeclarationOf(members) ==
  [kind |-> "EnumDeclaration", members |-> [defined |-> TRUE, list |-> members]]
ModuleDeclaration ==
  [kind |-> "ModuleDeclaration", members |-> [defined |-> FALSE, list |-> <<>>]]
EnumMemberDeclaration ==
  [kind |-> "EnumMember", members |-> [defined |-> FALSE, list |-> <<>>]]

SymbolOf(n, ds) ==
  [defined |-> TRUE, name |-> n, declarations |-> [defined |-> TRUE, list |-> ds]]

\* EnumType.memberTypes as the checker fills it: one member type per value,
\* that of the first member with the value
memberTypesOf(members) ==
  [defined |-> TRUE,
   byValue |-> [v \in {members[i].value : i \in 1..Len(members)} |->
                  members[Min({i \in 1..Len(members) : members[i].value = v})].text]]

Led == <<"L", "e", "d">>
White == <<"W", "h", "i", "t", "e">>
Red == <<"R", "e", "d">>
Blue == <<"B", "l", "u", "e">>

\* the member lists of enum Led: default values, and values under which the
\* first member is neither the zero- nor the one-valued member
LedMembers ==
  { <<Identifier(White, 0), Identifier(Red, 1), Identifier(Blue, 2)>>,
    <<Identifier(White, 5), Identifier(Red, 0), Identifier(Blue, 1)>>,
    <<Identifier(White, 1), Identifier(Red, 2), Identifier(Blue, 3)>>,
    <<Identifier(White, 7)>> }

\* the flags of an enum type: a union of enum literals (later services), or an
\* enum (earlier services)
EnumFlags ==
  { TypeFlags_EnumLiteral \cup TypeFlags_Union, TypeFlags_Enum \cup TypeFlags_Union }

\* enum types whose declaration can be resolved; the second form is an enum
\* merged with a namespace declared before it
EnumTypes ==
  { [BaseType EXCEPT !.flags = f, !.symbol = SymbolOf(Led, ds),
                     !.memberTypes = memberTypesOf(ms),
                     !.typeString = Led] :
      <<f, ms, ds>> \in
        { <<f, ms, ds>> \in EnumFlags \X LedMembers
                             \X UNION {{<<EnumDeclarationOf(m)>>,
                                        <<ModuleDeclaration, EnumDeclarationOf(m)>>}
                                       : m \in LedMembers} :
            ds[Len(ds)] = EnumDeclarationOf(ms) } }

\* types flagged as enums whose first member cannot be resolved
BrokenEnumShapes ==
  { [BaseType EXCEPT !.symbol = NoSymbol],
    [BaseType EXCEPT !.symbol = [SymbolOf(Led, <<>>) EXCEPT !.declarations = NoDeclarations]],
    [BaseType EXCEPT !.symbol = SymbolOf(Led, <<>>)],
    [BaseType EXCEPT !.symbol = SymbolOf(Red, <<EnumMemberDeclaration>>)],
    [BaseType EXCEPT !.symbol = SymbolOf(Led, <<ModuleDeclaration>>)],
    [BaseType EXCEPT !.symbol = SymbolOf(Led, <<EnumDeclarationOf(<<>>)>>)],
    [BaseType EXCEPT !.symbol = SymbolOf(Led, <<[EnumDeclarationOf(<<>>) EXCEPT
                                                !.members.defined = FALSE]>>)],
    [BaseType EXCEPT !.symbol = SymbolOf(Led, <<EnumDeclarationOf(
                                   <<StringName(White, 0), Identifier(Red, 1)>>)>>),
                     !.memberTypes = memberTypesOf(<<StringName(White, 0)>>)] }

BrokenEnumTypes ==
  { [t EXCEPT !.flags = f] : t \in BrokenEnumShapes,
                             f \in {TypeFlags_EnumLiteral, TypeFlags_Enum} }

PrimitiveTypes ==
  { [BaseType EXCEPT !.flags = TypeFlags_Number, !.intrinsicName = "number"],
    [BaseType EXCEPT !.flags = TypeFlags_String, !.intrinsicName = "string"],
    [BaseType EXCEPT !.flags = TypeFlags_Boolean \cup TypeFlags_Union,
                     !.intrinsicName = "boolean"],
    [BaseType EXCEPT !.flags = TypeFlags_Void, !.intrinsicName = "void"] }

\* a call signature: its printed text and the flags of its return type
Sig(t, r) == [text |-> t, returnFlags |-> r]

SignatureTexts ==
  { Sig(<<"(", ")", ":", " ", "n", "u", "m", "b", "e", "r">>, TypeFlags_Number),
    Sig(<<"(", ")", ":", " ", "n", "u", "m", "b", "e", "r">>, TypeFlags_NumberLiteral),
    Sig(<<"(", ")", ":", " ", "n", "u", "m", "b", "e", "r">>, TypeFlags_Enum \cup TypeFlags_Union),
    Sig(<<"(", ")", ":", " ", "s", "t", "r", "i", "n", "g">>, TypeFlags_String),
    Sig(<<"(", ")", ":", " ", "s", "t", "r", "i", "n", "g">>, TypeFlags_StringLiteral),
    Sig(<<"(", ")", ":", " ", "s", "t", "r", "i", "n", "g">>, TypeFlags_Index),
    Sig(<<"(", ")", ":", " ", "b", "o", "o", "l", "e", "a", "n">>, TypeFlags_Boolean \cup TypeFlags_Union),
    Sig(<<"(", ")", ":", " ", "b", "o", "o", "l", "e", "a", "n">>, TypeFlags_BooleanLiteral),
    Sig(<<"(", ")", ":", " ", "v", "o", "i", "d">>, TypeFlags_Void),
    Sig(<<"(", "x", ":", " ", "n", "u", "m", "b", "e", "r", ")", ":", " ", "v", "o", "i", "d">>, TypeFlags_Void),
    Sig(<<"(", ")", ":", " ", "a", "n", "y">>, TypeFlags_Any),
    Sig(<<"(", ")", ":", " ", "{", " ", "a", ":", " ", "n", "u", "m", "b", "e", "r", ";", " ", "}">>, TypeFlags_Object),
    Sig(<<"(", ")", ":", " ", "(", "x", ":", " ", "n", "u", "m", "b", "e", "r", ")", " ", "=", ">", " ", "v", "o", "i", "d">>, TypeFlags_Object),
    Sig(<<"(", ")">>, TypeFlags_Void),
    Sig(<<"(", ")", ":", " ", "n", "u", "m", "b", "e", "r">>, TypeFlags_Number \cup TypeFlags_String),
    Sig(<<"(", ")", ":", " ", "s", "t", "r", "i", "n", "g">>, TypeFlags_String \cup TypeFlags_Boolean),
    Sig(<<"(", ")", ":", " ", "n", "u", "m", "b", "e", "r">>, TypeFlags_Number \cup TypeFlags_Boolean) }

\* anonymous object types with call signatures (function types); a second
\* signature is an overload
FunctionTypes ==
  { [BaseType EXCEPT !.flags = TypeFlags_Object, !.objectFlags = ObjectFlags_Anonymous,
                     !.callSignatures = cs] :
      cs \in {<<s>> : s \in SignatureTexts}
             \cup {<<Sig(<<"(", ")", ":", " ", "v", "o", "i", "d">>, TypeFlags_Void), Sig(<<"(", ")", ":", " ", "n", "u", "m", "b", "e", "r">>, TypeFlags_Number)>>} }

ObjectTypes ==
  { [BaseType EXCEPT !.flags = TypeFlags_Object, !.objectFlags = ObjectFlags_Anonymous,
                     !.typeString = <<"{", " ", "a", ":", " ", "n", "u", "m", "b", "e", "r", ";", " ", "}">>],
    [BaseType EXCEPT !.flags = TypeFlags_Object, !.objectFlags = ObjectFlags_Reference,
                     !.typeString = <<"n", "u", "m", "b", "e", "r", "[", "]">>],
    [BaseType EXCEPT !.flags = TypeFlags_Object, !.objectFlags = ObjectFlags_Reference,
                     !.typeString = <<"n", "u", "m", "b", "e", "r", "[", "]", "[", "]">>],
    [BaseType EXCEPT !.flags = TypeFlags_Object,
                     !.objectFlags = ObjectFlags_Reference \cup ObjectFlags_Tuple,
                     !.typeString = <<"[", "n", "u", "m", "b", "e", "r", ",", " ", "s", "t", "r", "i", "n", "g", "]">>],
    [BaseType EXCEPT !.flags = TypeFlags_Object, !.objectFlags = ObjectFlags_Interface,
                     !.typeString = <<"F", "o", "o">>],
    [BaseType EXCEPT !.flags = TypeFlags_Object, !.objectFlags = ObjectFlags_Reference,
                     !.typeString = <<"A", "r", "r", "a", "y", "<", "n", "u", "m", "b", "e", "r", "[", "]", ">">>] }

OtherTypes ==
  { UndefinedType, BaseType,
    [BaseType EXCEPT !.flags = TypeFlags_Any, !.intrinsicName = "any"],
    [BaseType EXCEPT !.flags = TypeFlags_TypeParameter, !.typeString = <<"T">>],
    [BaseType EXCEPT !.flags = TypeFlags_Union],
    [BaseType EXCEPT !.flags = TypeFlags_StringLiteral],
    [BaseType EXCEPT !.flags = TypeFlags_NumberLiteral],
    [BaseType EXCEPT !.flags = TypeFlags_BooleanLiteral, !.intrinsicName = "true"] }

TypeSamples ==
  EnumTypes \cup BrokenEnumTypes \cup PrimitiveTypes \cup FunctionTypes
    \cup ObjectTypes \cup OtherTypes

----------------------------------------------------------------------------
(* Documentation texts of a parameter *)

\* the characters candidate lists are made of: two tokens, the separators
\* and the two quotes
BodyChars == {"5", "6", ",", " ", "\"", "'"}

\* every candidate list of up to MaxBodyLen characters
Bodies == UNION {[1..k -> BodyChars] : k \in 0..MaxBodyLen}

\* eg: and a space, then every candidate list
TokenDocs == {<<"e", "g", ":", " ">> \o b : b \in Bodies}

\* the marker in its spellings and surroundings, followed by one candidate
MarkerDocs ==
  { pre \o mark \o punct \o gap \o <<"5">> :
      pre \in {<<>>, <<"x", " ">>, <<"l">>, <<"x", "\n">>},
      mark \in {<<"e", "g">>, <<"E", "G">>, <<"E", "g">>},
      punct \in {<<":">>, <<".", ":">>, <<>>, <<".">>},
      gap \in {<<>>, <<" ">>} }

\* documentation without a marker, the examples of the specification, and
\* markers followed by nothing usable, by a line break, or by a second marker
OtherDocs ==
  { <<>>, <<"x">>, <<"5", ",", " ", "6">>,
    <<"e", "g", ":", " ", "5", ",", " ", "6", ",", " ", "7">>, <<"e", "g", ":", " ", "5", ",", " ", "7", ",", " ", "6">>, <<"e", "g", ":", " ", "\"", "5", " ", "6", "\"", ",", " ", "7">>, <<"e", "g", ":", " ", "'", "5", ",", " ", "6", "'", " ", "7">>,
    <<"e", "g", ":">>, <<"e", "g", ":", " ">>, <<"e", "g", ":", " ", " ">>, <<"e", "g", ":", " ", ",", " ">>, <<"e", "g", ":", " ", "\"", "\"">>, <<"e", "g", ":", " ", "\"", "\"", " ", "5">>, <<"e", "g", ":", " ", "'", "'">>,
    <<"e", "g", ":", "\n", "5">>, <<"e", "g", ":", "\n">>, <<"e", "g", ":", " ", "5", "\n", "6">>, <<"e", "g", ":", " ", "5", " ", "e", "g", ":", " ", "6">>, <<"x", " ", "e", "g", ":", " ", "5", "\n", "e", "g", ":", " ", "6">>, <<"x", " ", "e", "g", ".", ":", " ", "\"", "5", "\"", ",", " ", "6">> }

Docs == TokenDocs \cup MarkerDocs \cup OtherDocs

\* the documentation texts every sample type is combined with
DocSamples ==
  { <<>>, <<"x">>, <<"e", "g", ":", " ", "5", ",", " ", "6", ",", " ", "7">>, <<"e", "g", ":", " ", "\"", "5", " ", "6", "\"", ",", " ", "7">>, <<"e", "g", ":", " ", "'", "5", "'">>, <<"e", "g", ":", " ", "\"", "\"">>,
    <<"e", "g", ":", " ", ",", " ">>, <<"e", "g", " ", "5">>, <<"E", "G", ":", " ", "6">>, <<"x", " ", "e", "g", ".", ":", " ", "7">> }

----------------------------------------------------------------------------
(* Parameters: ts.Symbol of a parameter with its type and documentation *)

ParameterNames == {leds, <<"x">>}

Parameter(n, t, d) == [name |-> n, type |-> t, doc |-> d]

\* the types every documentation text is combined with
DocTypes ==
  { [BaseType EXCEPT !.flags = TypeFlags_Number, !.intrinsicName = "number"],
    [BaseType EXCEPT !.flags = TypeFlags_String, !.intrinsicName = "string"],
    [BaseType EXCEPT !.flags = TypeFlags_TypeParameter, !.typeString = <<"T">>],
    [BaseType EXCEPT !.flags = TypeFlags_Object, !.objectFlags = ObjectFlags_Reference,
                     !.typeString = <<"n", "u", "m", "b", "e", "r", "[", "]">>],
    [BaseType EXCEPT !.flags = TypeFlags_EnumLiteral \cup TypeFlags_Union,
                     !.symbol = SymbolOf(Led, <<EnumDeclarationOf(
                                  <<Identifier(White, 0), Identifier(Red, 1)>>)>>),
                     !.memberTypes = memberTypesOf(
                                  <<Identifier(White, 0), Identifier(Red, 1)>>),
                     !.typeString = Led] }

Parameters ==
  { Parameter(n, t, d) : n \in ParameterNames, t \in TypeSamples, d \in DocSamples }
    \cup { Parameter(n, t, d) : n \in ParameterNames, t \in DocTypes, d \in Docs }

NoParameter == Parameter(<<>>, UndefinedType, <<>>)

----------------------------------------------------------------------------
(* Completion entries: what the language service resolves for a request *)

NumberType == [BaseType EXCEPT !.flags = TypeFlags_Number, !.intrinsicName = "number"]
StringType == [BaseType EXCEPT !.flags = TypeFlags_String, !.intrinsicName = "string"]
LedMembersDefault == <<Identifier(White, 0), Identifier(Red, 1), Identifier(Blue, 2)>>
LedType(f) ==
  [BaseType EXCEPT !.flags = f,
                   !.symbol = SymbolOf(Led, <<EnumDeclarationOf(LedMembersDefault)>>),
                   !.memberTypes = memberTypesOf(LedMembersDefault),
                   !.typeString = Led]

\* the parameters signatures are made of
ParameterSamples ==
  { Parameter(<<"x">>, NumberType, <<>>),
    Parameter(leds, StringType, <<>>),
    Parameter(<<"d">>, LedType(TypeFlags_EnumLiteral \cup TypeFlags_Union), <<>>),
    Parameter(<<"d">>, LedType(TypeFlags_Enum \cup TypeFlags_Union), <<>>),
    Parameter(<<"d">>,
              [BaseType EXCEPT !.flags = TypeFlags_EnumLiteral,
                               !.symbol = [SymbolOf(Led, <<>>) EXCEPT
                                             !.declarations = NoDeclarations]],
              <<>>),
    Parameter(<<"g">>,
              [BaseType EXCEPT !.flags = TypeFlags_Object,
                               !.objectFlags = ObjectFlags_Anonymous,
                               !.callSignatures = <<Sig(<<"(", ")", ":", " ", "n", "u", "m", "b", "e", "r">>, TypeFlags_Number)>>],
              <<>>),
    Parameter(<<"x">>, NumberType, <<"e", "g", ":", " ", "5", ",", " ", "6", ",", " ", "7">>),
    Parameter(<<"s">>, StringType, <<"e", "g", ":", " ", "\"", "\"">>) }

\* a call signature of a completion entry: its parameters, of which the first
\* minArgumentCount are required
Signatures ==
  { [parameters |-> ps, minArgumentCount |-> k] :
      <<ps, k>> \in { <<ps, k>> \in (UNION {[1..n -> ParameterSamples] : n \in 0..MaxParams})
                                     \X (0..MaxParams) : k <= Len(ps) } }

\* later overloads of an entry
Overloads ==
  { <<>>,
    <<[parameters |-> <<>>, minArgumentCount |-> 0]>>,
    <<[parameters |-> <<Parameter(<<"x">>, NumberType, <<>>), Parameter(<<"y">>, NumberType, <<>>),
                        Parameter(<<"z">>, NumberType, <<>>)>>,
       minArgumentCount |-> 3]>>,
    <<[parameters |-> <<Parameter(<<"d">>,
                                  [BaseType EXCEPT !.flags = TypeFlags_EnumLiteral,
                                                   !.symbol = [SymbolOf(Led, <<>>) EXCEPT
                                                                 !.declarations = NoDeclarations]],
                                  <<>>)>>,
       minArgumentCount |-> 1],
      [parameters |-> <<Parameter(leds, StringType, <<>>)>>, minArgumentCount |-> 1]>> }

\* symbol.valueDeclaration: missing, or a declaration (whose kind is never 0,
\* SyntaxKind.Unknown, so that the test of its kind is the test of its presence)
ValueDeclarations == {"undefined", "declared"}

EntrySymbol(vd, cs) == [defined |-> TRUE, valueDeclaration |-> vd, callSignatures |-> cs]
NoEntrySymbol == [defined |-> FALSE, valueDeclaration |-> "undefined", callSignatures |-> <<>>]

EntrySymbols ==
  { EntrySymbol("declared", <<s>> \o o) : s \in Signatures, o \in Overloads }
    \cup { EntrySymbol(vd, cs) :
             vd \in ValueDeclarations,
             cs \in {<<>>, <<[parameters |-> <<Parameter(<<"x">>, NumberType, <<>>)>>,
                              minArgumentCount |-> 1]>>} }

\* what getCompletionEntrySymbol answers for the parent: nothing, a symbol
\* without a members table, or a symbol whose members table may hold the entry
NoParentSymbol == [defined |-> FALSE, hasMembers |-> FALSE, member |-> NoEntrySymbol]
ParentSymbol(m) == [defined |-> TRUE, hasMembers |-> TRUE, member |-> m]
ParentWithoutMembers == [defined |-> TRUE, hasMembers |-> FALSE, member |-> NoEntrySymbol]

Labels == {<<"m", "o", "v", "e">>, <<"x">>}

\* a request: the label, what the entry resolves to, whether a parent is
\* given and what it resolves to
Call(l, s, hp, ps) == [label |-> l, symbol |-> s, hasParent |-> hp, parentSymbol |-> ps]

Calls ==
  { Call(l, s, hp, NoParentSymbol) : l \in Labels, s \in EntrySymbols, hp \in BOOLEAN }
    \cup { Call(l, NoEntrySymbol, TRUE, ParentSymbol(m)) :
             l \in Labels, m \in EntrySymbols \cup {NoEntrySymbol} }
    \cup { Call(l, NoEntrySymbol, hp, ps) :
             l \in Labels, hp \in BOOLEAN,
             ps \in {NoParentSymbol, ParentWithoutMembers,
                     ParentSymbol(EntrySymbol("declared", <<>>))} }

NoCall == Call(<<>>, NoEntrySymbol, FALSE, NoParentSymbol)

\* ICreateData: the compiler options and extra libraries a worker is made with
CreateData ==
  { [compilerOptions |-> "es5", extraLibs |-> {}],
    [compilerOptions |-> "es6", extraLibs |-> {"pxt.d.ts"}] }

----------------------------------------------------------------------------
(* Array.prototype.slice, forEach/push and join, as the driver uses them *)

\* parameters.slice(0, minArgumentCount)
slice(s, n) == SubSeq(s, 1, IF n <= Len(s) THEN n ELSE Len(s))

\* Array.prototype.join: undefined elements are written as the empty string
RECURSIVE join(_, _)
join(a, sep) ==
  IF Len(a) = 0 THEN <<>>
  ELSE IF Len(a) = 1 THEN a[1].text
  ELSE a[1].text \o sep \o join(Tail(a), sep)

\* what a call of getCompletionEntryDetailsAndSnippet does: a promise of
\* [entryDetails, codeSnippet], the value undefined, or a TypeError thrown
Promise(snippet) == [kind |-> "promise", codeSnippet |-> snippet]
NoPromise == [kind |-> "undefined", codeSnippet |-> <<>>]
TypeError == [kind |-> "TypeError", codeSnippet |-> <<>>]
NoResult == [kind |-> "none", codeSnippet |-> <<>>]

\* part_001 lines 398-411, worker lines 318-331: the argument list appended
\* to the label; rendered holds what renderParameter did for each required
\* parameter, in order
argumentList(rendered) ==
  IF Len(rendered) > 0
  THEN <<"(">> \o join(rendered, <<",", " ">>) \o <<")">>
  ELSE <<"(", ")">>

\* part_001 lines 272-283, worker lines 211-222: the symbol the snippet is
\* built for; faulted when the members of a parent without a members table
\* are read
resolveSymbol(c) ==
  IF c.symbol.defined THEN [faulted |-> FALSE, symbol |-> c.symbol]
  ELSE IF ~c.hasParent THEN [faulted |-> FALSE, symbol |-> NoEntrySymbol]
  ELSE IF ~c.parentSymbol.defined THEN [faulted |-> FALSE, symbol |-> NoEntrySymbol]
  ELSE IF ~c.parentSymbol.hasMembers THEN [faulted |-> TRUE, symbol |-> NoEntrySymbol]
  ELSE [faulted |-> FALSE, symbol |-> c.parentSymbol.member]

\* codeSnippet appending an empty argument list to what is not callable (a
\* mutant)
codeSnippet_alwaysCalled(label, symbol) ==
  LET signatures == symbol.callSignatures
      signature == signatures[1]
      required == slice(signature.parameters, signature.minArgumentCount)
      suggestionArgumentNames == [i \in 1..Len(required) |-> renderParameter(required[i])]
  IN  IF symbol.valueDeclaration # "declared" \/ Len(signatures) = 0
      THEN Promise(label \o <<"(", ")">>)
      ELSE IF \E i \in 1..Len(required) : suggestionArgumentNames[i].kind = "TypeError"
      THEN TypeError
      ELSE Promise(label \o argumentList(suggestionArgumentNames))

\* codeSnippet taking the last call signature instead of the first (a
\* mutant)
codeSnippet_lastSignature(label, symbol) ==
  LET signatures == symbol.callSignatures
      signature == signatures[Len(signatures)]
      required == slice(signature.parameters, signature.minArgumentCount)
      suggestionArgumentNames == [i \in 1..Len(required) |-> renderParameter(required[i])]
  IN  IF symbol.valueDeclaration # "declared" \/ Len(signatures) = 0
      THEN Promise(label)
      ELSE IF \E i \in 1..Len(required) : suggestionArgumentNames[i].kind = "TypeError"
      THEN TypeError
      ELSE Promise(label \o argumentList(suggestionArgumentNames))

\* codeSnippet rendering every parameter with the documentation of the
\* first one (a mutant)
codeSnippet_sharedDocumentation(label, symbol) ==
  LET signatures == symbol.callSignatures
      signature == signatures[1]
      required == slice(signature.parameters, signature.minArgumentCount)
      suggestionArgumentNames ==
        [i \in 1..Len(required) |->
           renderParameter([required[i] EXCEPT !.doc = required[1].doc])]
  IN  IF symbol.valueDeclaration # "declared" \/ Len(signatures) = 0
      THEN Promise(label)
      ELSE IF \E i \in 1..Len(required) : suggestionArgumentNames[i].kind = "TypeError"
      THEN TypeError
      ELSE Promise(label \o argumentList(suggestionArgumentNames))

\* part_001 lines 295-413: codeSnippet, for a resolved symbol
codeSnippet(label, symbol) ==
  LET signatures == symbol.callSignatures
      signature == signatures[1]
      required == slice(signature.parameters, signature.minArgumentCount)
      suggestionArgumentNames == [i \in 1..Len(required) |-> renderParameter(required[i])]
  IN  IF symbol.valueDeclaration # "declared" \/ Len(signatures) = 0
      THEN Promise(label)
      ELSE IF \E i \in 1..Len(required) : suggestionArgumentNames[i].kind = "TypeError"
      THEN TypeError
      ELSE Promise(label \o argumentList(suggestionArgumentNames))

\* worker lines 232-333
codeSnippet_worker(label, symbol) ==
  LET signatures == symbol.callSignatures
      signature == signatures[1]
      required == slice(signature.parameters, signature.minArgumentCount)
      suggestionArgumentNames ==
        [i \in 1..Len(required) |-> renderParameter_worker(required[i])]
  IN  IF symbol.valueDeclaration # "declared" \/ Len(signatures) = 0
      THEN Promise(label)
      ELSE IF \E i \in 1..Len(required) : suggestionArgumentNames[i].kind = "TypeError"
      THEN TypeError
      ELSE Promise(label \o argumentList(suggestionArgumentNames))

\* part_001 lines 269-414
snippetResult(c) ==
  LET r == resolveSymbol(c)
  IN  IF r.faulted THEN TypeError
      ELSE IF ~r.symbol.defined THEN NoPromise
      ELSE codeSnippet(c.label, r.symbol)

\* worker lines 208-334
snippetResult_worker(c) ==
  LET r == resolveSymbol(c)
  IN  IF r.faulted THEN TypeError
      ELSE IF ~r.symbol.defined THEN NoPromise
      ELSE codeSnippet_worker(c.label, r.symbol)

----------------------------------------------------------------------------
(* The worker serving one request *)

\* part_001 lines 89-93, worker lines 33-37: a worker constructed from its
\* create data, about to serve a request
Init ==
  /\ impl \in {"part_001", "worker"}
  /\ pc = "request"
  /\ call \in Calls
  /\ parameter = NoParameter
  /\ result = NoResult
  /\ served = <<>>
  /\ \E d \in CreateData :
       /\ _compilerOptions = d.compilerOptions
       /\ _extraLibs = d.extraLibs

getCompletionEntryDetailsAndSnippet ==
  /\ pc = "request"
  /\ impl = "part_001"
  /\ result' = snippetResult(call)
  /\ served' = Append(served, [call |-> call, result |-> result'])
  /\ pc' = "done"
  /\ UNCHANGED <<impl, call, parameter, _compilerOptions, _extraLibs>>

getCompletionEntryDetailsAndSnippet_worker ==
  /\ pc = "request"
  /\ impl = "worker"
  /\ result' = snippetResult_worker(call)
  /\ served' = Append(served, [call |-> call, result |-> result'])
  /\ pc' = "done"
  /\ UNCHANGED <<impl, call, parameter, _compilerOptions, _extraLibs>>

Next ==
  \/ getCompletionEntryDetailsAndSnippet
  \/ getCompletionEntryDetailsAndSnippet_worker

Spec == Init /\ [][Next]_vars

----------------------------------------------------------------------------
(* One worker serving requests one after the other *)

\* a function whose first signature requires the given parameters
FunctionOf(ps) ==
  EntrySymbol("declared", <<[parameters |-> ps, minArgumentCount |-> Len(ps)]>>)

\* parameters with an example, with an empty quoted example, of an enum, of
\* an enum whose declarations are missing, and the image parameter
ExampleParameter == Parameter(<<"x">>, NumberType, <<"e", "g", ":", " ", "5", ",", " ", "6", ",", " ", "7">>)
EmptyExampleParameter == Parameter(<<"s">>, StringType, <<"e", "g", ":", " ", "\"", "\"">>)
EnumParameter == Parameter(<<"d">>, LedType(TypeFlags_EnumLiteral \cup TypeFlags_Union), <<>>)
BrokenEnumParameter ==
  Parameter(<<"d">>,
            [BaseType EXCEPT !.flags = TypeFlags_EnumLiteral,
                             !.symbol = [SymbolOf(Led, <<>>) EXCEPT
                                           !.declarations = NoDeclarations]],
            <<>>)
LedsParameter == Parameter(leds, StringType, <<>>)

\* the requests of a sequence: the same parameters at different positions
\* and beside different parameters, and requests that return no snippet
SequenceCalls ==
  { Call(<<"m", "o", "v", "e">>, FunctionOf(ps), FALSE, NoParentSymbol) :
      ps \in { <<ExampleParameter, EnumParameter>>,
               <<EnumParameter, ExampleParameter>>,
               <<ExampleParameter, EmptyExampleParameter>>,
               <<EmptyExampleParameter, ExampleParameter>>,
               <<LedsParameter>>,
               <<ExampleParameter, BrokenEnumParameter>> } }
    \cup { Call(<<"m", "o", "v", "e">>, NoEntrySymbol, FALSE, NoParentSymbol) }

InitSequence ==
  /\ impl \in {"part_001", "worker"}
  /\ pc = "request"
  /\ call \in SequenceCalls
  /\ parameter = NoParameter
  /\ result = NoResult
  /\ served = <<>>
  /\ \E d \in CreateData :
       /\ _compilerOptions = d.compilerOptions
       /\ _extraLibs = d.extraLibs

\* the next request reaches the worker once the last one is answered
nextRequest ==
  /\ pc = "done"
  /\ Len(served) < MaxRequests
  /\ call' \in SequenceCalls
  /\ result' = NoResult
  /\ pc' = "request"
  /\ UNCHANGED <<impl, parameter, served, _compilerOptions, _extraLibs>>

NextSequence ==
  \/ getCompletionEntryDetailsAndSnippet
  \/ getCompletionEntryDetailsAndSnippet_worker
  \/ nextRequest

SpecSequence == InitSequence /\ [][NextSequence]_vars

----------------------------------------------------------------------------
(* renderParameter on its own: one parameter of a signature being rendered *)

InitParameter ==
  /\ impl \in {"part_001", "worker"}
  /\ pc = "parameter"
  /\ call = NoCall
  /\ parameter \in Parameters
  /\ result = NoResult
  /\ served = <<>>
  /\ _compilerOptions = "es5"
  /\ _extraLibs = {}

renderParameterCall ==
  /\ pc = "parameter"
  /\ impl = "part_001"
  /\ result' = renderParameter(parameter)
  /\ pc' = "rendered"
  /\ UNCHANGED <<impl, call, parameter, served, _compilerOptions, _extraLibs>>

renderParameterCall_worker ==
  /\ pc = "parameter"
  /\ impl = "worker"
  /\ result' = renderParameter_worker(parameter)
  /\ pc' = "rendered"
  /\ UNCHANGED <<impl, call, parameter, served, _compilerOptions, _extraLibs>>

NextParameter ==
  \/ renderParameterCall
  \/ renderParameterCall_worker

SpecParameter == InitParameter /\ [][NextParameter]_vars

----------------------------------------------------------------------------
(* Properties of getCompletionEntryDetailsAndSnippet, checked under Spec *)

\* the request resolves to a symbol, directly or as a member of its parent
Resolved ==
  \/ call.symbol.defined
  \/ /\ call.hasParent /\ call.parentSymbol.defined
     /\ call.parentSymbol.hasMembers /\ call.parentSymbol.member.defined

\* the symbol the request resolves to
TheSymbol == IF call.symbol.defined THEN call.symbol ELSE call.parentSymbol.member

\* the resolved symbol has a type with at least one call signature
Callable ==
  /\ Resolved
  /\ TheSymbol.valueDeclaration = "declared"
  /\ Len(TheSymbol.callSignatures) >= 1

\* what renderParameter of the serving revision does for a parameter
Rendered(p) ==
  IF impl = "part_001" THEN renderParameter(p) ELSE renderParameter_worker(p)

\* P1, P2, ..., Pk: the placeholders of the first k parameters, comma-joined
RECURSIVE Placeholders(_, _)
Placeholders(ps, k) ==
  IF k = 0 THEN <<>>
  ELSE IF k = 1 THEN Rendered(ps[1]).text
  ELSE Placeholders(ps, k - 1) \o <<",", " ">> \o Rendered(ps[k]).text

StartsWith(s, prefix) ==
  Len(prefix) <= Len(s) /\ SubSeq(s, 1, Len(prefix)) = prefix

EndsWith(s, suffix) ==
  Len(suffix) <= Len(s) /\ SubSeq(s, Len(s) - Len(suffix) + 1, Len(s)) = suffix

\* C1: for every resolved symbol whose type has a call signature, the snippet
\* is the label followed by the parenthesised placeholders of exactly the
\* first minArgumentCount parameters of the first signature, in order, and
\* label() when that count is 0.
C1_SnippetOfRequiredParameters ==
  (pc = "done" /\ Callable) =>
    LET signature == TheSymbol.callSignatures[1]
    IN  result = Promise(call.label \o <<"(">>
                           \o Placeholders(signature.parameters,
                                           signature.minArgumentCount)
                           \o <<")">>)

\* C2: for every resolved symbol that has no value declaration or whose type
\* has no call signature, the snippet is the label and nothing else.
C2_NotCallableKeepsLabel ==
  (/\ pc = "done" /\ Resolved
   /\ (TheSymbol.valueDeclaration = "undefined" \/ Len(TheSymbol.callSignatures) = 0))
    => result = Promise(call.label)

\* a served request for a declared symbol without call signatures, resolved
\* through its parent, whose snippet is the label move
C2_Witness ==
  /\ pc = "done" /\ ~call.symbol.defined /\ Resolved
  /\ TheSymbol.valueDeclaration = "declared" /\ Len(TheSymbol.callSignatures) = 0
  /\ call.label = <<"m", "o", "v", "e">>
  /\ result = Promise(<<"m", "o", "v", "e">>)

\* C3: every invocation ends with a result that carries snippet text starting
\* with the label; none returns nothing and none throws.
C3_AlwaysUsableSnippet ==
  pc = "done" =>
    /\ result.kind = "promise"
    /\ StartsWith(result.codeSnippet, call.label)

----------------------------------------------------------------------------
(* Properties of renderParameter, checked under SpecParameter *)

\* what the example block of the serving revision does with the
\* documentation of the parameter
Extracted ==
  IF impl = "part_001" THEN exampleReturn(parameter.doc)
  ELSE exampleReturn_worker(parameter.doc)

\* what the type rules of the serving revision give for the parameter
TypeRuled ==
  IF impl = "part_001" THEN typeRules(parameter.name, parameter.type)
  ELSE typeRules_worker(parameter.name, parameter.type)

\* C4: whenever the example block yields a token for the documentation of a
\* parameter, the placeholder is that token, whatever the type of the
\* parameter.
C4_ExampleOverridesTypeRules ==
  (pc = "rendered" /\ Extracted.returns /\ Extracted.value.defined)
    => result = Returns(Extracted.value.text)

\* a parameter of a resolvable enum type documented with eg: 5, 6, 7 was
\* rendered as 5
C4_Witness ==
  /\ pc = "rendered"
  /\ parameter.type \in EnumTypes
  /\ parameter.doc = <<"e", "g", ":", " ", "5", ",", " ", "6", ",", " ", "7">>
  /\ TypeRuled.text = <<"L", "e", "d", ".", "W", "h", "i", "t", "e">>
  /\ result = Returns(<<"5">>)

\* the positions of the letters eg, in any case, in a documentation text
MarkerPositions(doc) ==
  {i \in 1..(Len(doc) - 1) : ToLower(doc[i]) = "e" /\ ToLower(doc[i + 1]) = "g"}

TheMarker(doc) == CHOOSE i \in MarkerPositions(doc) : TRUE

\* the text holds one marker, at the start of a word and directly followed by
\* a colon
ColonMarked(doc) ==
  /\ Cardinality(MarkerPositions(doc)) = 1
  /\ LET i == TheMarker(doc)
     IN  /\ (i = 1 \/ ~IsWordChar(doc[i - 1]))
         /\ i + 2 <= Len(doc) /\ doc[i + 2] = ":"

\* the text holds one marker, followed by neither a colon nor a period
Colonless(doc) ==
  /\ Cardinality(MarkerPositions(doc)) = 1
  /\ LET i == TheMarker(doc)
     IN  i + 2 > Len(doc) \/ doc[i + 2] \notin {":", "."}

\* where the first candidate after position j starts: past spaces and commas
\* (0 when the text ends first)
CandidateStart(doc, j) ==
  LET starts == {q \in j..Len(doc) : doc[q] \notin {" ", ","}}
  IN  IF starts = {} THEN 0 ELSE Min(starts)

\* the candidate that starts at p, read as an unquoted token: the characters
\* up to the next comma, space or line break
UnquotedCandidate(doc, p) ==
  LET ends == {q \in p..Len(doc) : doc[q] \in {" ", ",", "\n"}}
  IN  SubSeq(doc, p, IF ends = {} THEN Len(doc) ELSE Min(ends) - 1)

\* the first candidate after the colon of the marker is an unquoted token on
\* the line of the marker
UnquotedFirst(doc) ==
  LET p == CandidateStart(doc, TheMarker(doc) + 3)
  IN  p # 0 /\ doc[p] \notin {"\n", "\"", "'"}

\* C5 as stated: the marker in any letter case, followed by a candidate with
\* or without a colon, yields the candidate.
AnnotatedFive ==
  { mark \o punct \o <<" ", "5">> :
      mark \in {<<"e", "g">>, <<"E", "G">>, <<"E", "g">>}, punct \in {<<":">>, <<>>} }

CandidateListed(doc) ==
  /\ StartsWith(doc, <<"e", "g", ":", " ">>)
  /\ MarkerPositions(doc) = {1}
  /\ \A q \in 1..Len(doc) : doc[q] # "\n"

\* the closing quote of a candidate whose opening quote is at p (0 when it is
\* not closed)
QuoteEnd(doc, p) ==
  LET qs == {q \in (p + 1)..Len(doc) : doc[q] = doc[p]}
  IN  IF doc[p] \notin {"\"", "'"} \/ qs = {} THEN 0 ELSE Min(qs)

NoUsableExample(doc) ==
  \/ doc = <<>>
  \/ MarkerPositions(doc) = {}
  \/ /\ StartsWith(doc, <<"e", "g", ":">>)
     /\ LET rest == trim(SubSeq(doc, 4, Len(doc)))
        IN  \/ \A q \in 1..Len(rest) : rest[q] \in {" ", ","}
            \/ rest = <<"\"", "\"">>

\* C7: for part_001, documentation without a usable example leaves the
\* placeholder to the type rules, and renderParameter never returns
\* undefined or an empty placeholder.
C7_NoExampleFallsThrough ==
  (pc = "rendered" /\ impl = "part_001") =>
    /\ NoUsableExample(parameter.doc) => result = TypeRuled
    /\ result.kind # "undefined"
    /\ result.kind = "string" => result.text # <<>>

\* the flag under which the serving revision looks for an enum
EnumFlag == IF impl = "part_001" THEN TypeFlags_EnumLiteral ELSE TypeFlags_Enum

\* the type carries the enum flag and the first enum declaration of its
\* symbol has a first member named by an identifier
ResolvableEnum(t) ==
  /\ t.defined /\ And(t.flags, EnumFlag)
  /\ t.symbol.defined /\ t.symbol.declarations.defined
  /\ \E i \in 1..Len(t.symbol.declarations.list) :
       LET d == t.symbol.declarations.list[i]
       IN  /\ d.kind = "EnumDeclaration"
           /\ \A j \in 1..(i - 1) : t.symbol.declarations.list[j].kind # "EnumDeclaration"
           /\ d.members.defined /\ Len(d.members.list) > 0
           /\ d.members.list[1].nameKind = "Identifier"

FirstDeclaredMember(t) ==
  LET ds == t.symbol.declarations.list
      i == Min({j \in 1..Len(ds) : ds[j].kind = "EnumDeclaration"})
  IN  ds[i].members.list[1].text

\* C8: a parameter without example whose type is an enum with at least one
\* member is rendered as the enum name, a period and the first member of the
\* enum declaration in source order, whatever the values of the members.
C8_FirstDeclaredEnumMember ==
  (pc = "rendered" /\ ~Extracted.returns /\ ResolvableEnum(parameter.type)) =>
    result = Returns(parameter.type.symbol.name \o <<".">>
                       \o FirstDeclaredMember(parameter.type))

\* C9: for part_001, a parameter without example whose type carries the
\* enum-literal flag but whose enum cannot be resolved is rendered, without
\* a throw, as the placeholder of its name.
C9_UnresolvableEnumFallsBack ==
  (/\ pc = "rendered" /\ impl = "part_001" /\ ~Extracted.returns
   /\ parameter.type.defined /\ And(parameter.type.flags, TypeFlags_EnumLiteral)
   /\ ~ResolvableEnum(parameter.type)) =>
    result = Returns(<<"$", "{", "1", ":">> \o parameter.name \o <<"}">>)

\* the statement a return type gets in the body of the function literal
ReturnStatement(returnFlags) ==
  IF returnFlags \cap (TypeFlags_Number \cup TypeFlags_NumberLiteral \cup TypeFlags_Enum) # {}
  THEN <<"r", "e", "t", "u", "r", "n", " ", "0", ";">>
  ELSE IF returnFlags \cap (TypeFlags_String \cup TypeFlags_StringLiteral
                              \cup TypeFlags_Index) # {}
  THEN <<"r", "e", "t", "u", "r", "n", " ", "\"", "\"", ";">>
  ELSE IF returnFlags \cap (TypeFlags_Boolean \cup TypeFlags_BooleanLiteral) # {}
  THEN <<"r", "e", "t", "u", "r", "n", " ", "f", "a", "l", "s", "e", ";">>
  ELSE <<>>

Contains(s, sub) ==
  \E i \in 1..(Len(s) - Len(sub) + 1) : SubSeq(s, i, i + Len(sub) - 1) = sub

\* C10: for part_001, a parameter without example whose type is an anonymous
\* function type is rendered as a function literal whose body holds the
\* return statement of the first signature's return type (number-like, then
\* string-like, then boolean-like), and no return statement for any other
\* return type; the body ends with the final tab stop of the snippet.
C10_FunctionLiteralBody ==
  (/\ pc = "rendered" /\ impl = "part_001" /\ ~Extracted.returns
   /\ parameter.type.defined
   /\ And(parameter.type.flags, TypeFlags_Object)
   /\ ~And(parameter.type.flags, TypeFlags_EnumLiteral)
   /\ And(parameter.type.objectFlags, ObjectFlags_Anonymous)
   /\ Len(parameter.type.callSignatures) >= 1) =>
    LET stmt == ReturnStatement(parameter.type.callSignatures[1].returnFlags)
    IN  /\ result.kind = "string"
        /\ StartsWith(result.text, <<"f", "u", "n", "c", "t", "i", "o", "n", " ">>)
        /\ EndsWith(result.text, <<" ", "{", "\n", "\t">> \o stmt \o <<"$", "0", "\n", "}">>)
        /\ stmt = <<>> => ~Contains(result.text, <<"r", "e", "t", "u", "r", "n">>)

\* a parameter typed () => number was rendered as a function returning 0
C10_Witness ==
  /\ pc = "rendered" /\ impl = "part_001"
  /\ parameter.doc = <<>>
  /\ parameter.type.callSignatures = <<Sig(<<"(", ")", ":", " ", "n", "u", "m", "b", "e", "r">>, TypeFlags_Number)>>
  /\ result = Returns(<<"f", "u", "n", "c", "t", "i", "o", "n", " ", "(", ")", " ", "{", "\n", "\t", "r", "e", "t", "u", "r", "n", " ", "0", ";", "$", "0", "\n", "}">>)

\* the generic placeholder of the serving revision, bound to a name
GenericPlaceholder(name) ==
  IF impl = "part_001" THEN <<"$", "{", "1", ":">> \o name \o <<"}">>
  ELSE <<"{", "{">> \o name \o <<"}", "}">>

\* the parameter has no example and its type is an object type that the
\* enum rule does not take
ObjectTyped ==
  /\ ~Extracted.returns
  /\ parameter.type.defined
  /\ And(parameter.type.flags, TypeFlags_Object)
  /\ ~And(parameter.type.flags, EnumFlag)

\* C11: a parameter without example whose type is an anonymous object type
\* without call signature is rendered as the generic placeholder of its
\* name, not as a function literal.
C11_AnonymousObjectFallsThrough ==
  (/\ pc = "rendered" /\ ObjectTyped
   /\ And(parameter.type.objectFlags, ObjectFlags_Anonymous)
   /\ Len(parameter.type.callSignatures) = 0) =>
    result = Returns(GenericPlaceholder(parameter.name))

\* C12: a parameter without example whose type is a tuple type (tuple flag
\* on the object type) or whose printed type ends with the array suffix,
\* nested arrays included, is rendered as the empty array literal.
C12_ArrayOrTupleShape ==
  (/\ pc = "rendered" /\ ObjectTyped
   /\ ~And(parameter.type.objectFlags, ObjectFlags_Anonymous)
   /\ \/ And(parameter.type.objectFlags, ObjectFlags_Tuple)
      \/ EndsWith(parameter.type.typeString, <<"[", "]">>)) =>
    result = Returns(<<"[", "]">>)

\* the parameter has no example and its type is the primitive type of the
\* given flag and intrinsic name
PrimitiveTyped(flag, kind) ==
  /\ ~Extracted.returns
  /\ parameter.type.defined
  /\ And(parameter.type.flags, flag)
  /\ ~And(parameter.type.flags, EnumFlag \cup TypeFlags_Object)
  /\ parameter.type.intrinsicName = kind

\* a row of the image grid whose third cell is c, and a 5x5 image block
\* literal whose centre cell is c: a line break, five tab-indented rows, a
\* tab, all between grave accents
GridRow(c) == <<"\t", ".", " ", ".", " ", c, " ", ".", " ", ".", "\n">>

ImageLiteral(c) ==
  <<"grave">> \o <<"\n">> \o GridRow(".") \o GridRow(".") \o GridRow(c) \o GridRow(".")
    \o GridRow(".") \o <<"\t">> \o <<"grave">>

\* what the claim says of the primitive types, for a given centre cell of
\* the image literal
PrimitiveDefaults(c) ==
  pc = "rendered" =>
    /\ PrimitiveTyped(TypeFlags_Number, "number") => result = Returns(<<"0">>)
    /\ PrimitiveTyped(TypeFlags_Boolean, "boolean") =>
         result = Returns(<<"f", "a", "l", "s", "e">>)
    /\ PrimitiveTyped(TypeFlags_String, "string") =>
         result = Returns(IF parameter.name = <<"l", "e", "d", "s">>
                          THEN ImageLiteral(c) ELSE <<"\"", "\"">>)
    /\ (result.kind = "string" /\ Contains(result.text, GridRow(".")))
         => PrimitiveTyped(TypeFlags_String, "string")

\* C13 as stated: number gives 0 and boolean gives false whatever the name;
\* string gives the empty string literal unless the name is exactly leds,
\* which gives the 5x5 blank image block literal; no other type gives the
\* image.
C13_BlankImage == PrimitiveDefaults(".")

\* C13 amended: as above, but the image block literal has its centre cell
\* lit, all other cells being off.
C13_PrimitiveDefaults == PrimitiveDefaults("#")

\* a string parameter named leds was rendered as the image literal, and it
\* is not the blank one
C13_Witness ==
  /\ pc = "rendered"
  /\ parameter.name = <<"l", "e", "d", "s">>
  /\ PrimitiveTyped(TypeFlags_String, "string")
  /\ result = Returns(ImageLiteral("#"))
  /\ result # Returns(ImageLiteral("."))

\* the type of the parameter matches none of the rules for enums, function
\* types, arrays and tuples, and primitives of part_001: it is missing or
\* without flags, or it is no enum literal and either an object type that
\* is neither anonymous nor a tuple nor printed with the array suffix, or
\* no object type and not number, string or boolean
Unclassified ==
  LET t == parameter.type
  IN  \/ ~t.defined
      \/ t.flags = {}
      \/ /\ ~And(t.flags, TypeFlags_EnumLiteral)
         /\ IF And(t.flags, TypeFlags_Object)
            THEN /\ ~And(t.objectFlags, ObjectFlags_Anonymous \cup ObjectFlags_Tuple)
                 /\ ~EndsWith(t.typeString, <<"[", "]">>)
            ELSE t.intrinsicName \notin {"number", "string", "boolean"}

\* C14: for part_001, a parameter without example whose type matches none
\* of the rules 2 to 5 is rendered, without a throw, as exactly the generic
\* placeholder of its own name, which is the name once the placeholder
\* syntax is stripped.
C14_FallbackPlaceholder ==
  (pc = "rendered" /\ impl = "part_001" /\ ~Extracted.returns /\ Unclassified) =>
    /\ result.kind = "string"
    /\ result.text = <<"$", "{", "1", ":">> \o parameter.name \o <<"}">>
    /\ SubSeq(result.text, 5, Len(result.text) - 1) = parameter.name

\* a parameter x of a type parameter T, without documentation, was rendered
\* as the placeholder of x
C14_Witness ==
  /\ pc = "rendered" /\ impl = "part_001"
  /\ parameter.name = <<"x">> /\ parameter.doc = <<>>
  /\ parameter.type.flags = TypeFlags_TypeParameter
  /\ Unclassified
  /\ result = Returns(<<"$", "{", "1", ":", "x", "}">>)

----------------------------------------------------------------------------
(* Further properties of getCompletionEntryDetailsAndSnippet, under Spec *)

\* the resolved symbol with its first call signature kept and its later
\* overloads replaced by o
WithOverloads(o) ==
  [TheSymbol EXCEPT !.callSignatures = <<TheSymbol.callSignatures[1]>> \o o]

\* what the serving revision does for the label of the request and a symbol
SnippetFor(symbol) ==
  IF impl = "part_001" THEN codeSnippet(call.label, symbol)
  ELSE codeSnippet_worker(call.label, symbol)

\* C15: only the first call signature of an overloaded symbol is used: every
\* symbol with the same first signature as the one the request resolves to
\* gives, for the same label, what the request gave, whatever its later
\* overloads.
C15_FirstSignatureOnly ==
  (pc = "done" /\ Callable) =>
    \A o \in Overloads : SnippetFor(WithOverloads(o)) = result

\* move, whose first signature requires a number x and whose overload
\* requires three numbers, was rendered with the one argument of the first
C15_Witness ==
  /\ pc = "done" /\ Callable
  /\ Len(TheSymbol.callSignatures) = 2
  /\ Len(TheSymbol.callSignatures[1].parameters) = 1
  /\ TheSymbol.callSignatures[1].minArgumentCount = 1
  /\ TheSymbol.callSignatures[2].minArgumentCount = 3
  /\ result = Promise(<<"m", "o", "v", "e", "(", "0", ")">>)

----------------------------------------------------------------------------
(* Further properties of renderParameter, checked under SpecParameter *)

\* the number of opening less the number of closing parentheses among the
\* first k characters of s
RECURSIVE Depth(_, _)
Depth(s, k) ==
  IF k = 0 THEN 0
  ELSE Depth(s, k - 1) + (IF s[k] = "(" THEN 1 ELSE 0) - (IF s[k] = ")" THEN 1 ELSE 0)

\* the balanced parenthesised parameter list a printed signature starts with
ParameterList(text) ==
  SubSeq(text, 1, Min({k \in 1..Len(text) : Depth(text, k) = 0}))

\* what the function literal of the serving revision starts with, given its
\* parameter list
LiteralHead(list) ==
  IF impl = "part_001"
  THEN <<"f", "u", "n", "c", "t", "i", "o", "n", " ">> \o list \o <<" ", "{", "\n">>
  ELSE list \o <<" ", "=", ">", " ", "{", "\n">>

\* the parameter has no example and its type is an anonymous object type
\* with a call signature
FunctionTyped ==
  /\ ObjectTyped
  /\ And(parameter.type.objectFlags, ObjectFlags_Anonymous)
  /\ Len(parameter.type.callSignatures) >= 1

\* C16: the parameter list of the function literal emitted for an anonymous
\* function type is exactly the balanced parenthesised parameter list of
\* the printed first signature, whatever the return type: also when the
\* printed return type holds a colon, and when the text holds no colon.
C16_ParameterListOnly ==
  (pc = "rendered" /\ FunctionTyped) =>
    /\ result.kind = "string"
    /\ StartsWith(result.text,
                  LiteralHead(ParameterList(parameter.type.callSignatures[1].text)))

----------------------------------------------------------------------------
(* Properties of a sequence of requests, checked under SpecSequence *)

\* the symbol a served request resolved to
SymbolFor(c) == IF c.symbol.defined THEN c.symbol ELSE c.parentSymbol.member

\* the served request returned a snippet with an argument list
ReturnedArguments(e) ==
  /\ e.result.kind = "promise"
  /\ SymbolFor(e.call).defined
  /\ SymbolFor(e.call).valueDeclaration = "declared"
  /\ Len(SymbolFor(e.call).callSignatures) >= 1

\* every argument of the snippet of a served request is what its parameter
\* gives when rendered on its own
OwnPlaceholders(e) ==
  LET signature == SymbolFor(e.call).callSignatures[1]
      k == IF signature.minArgumentCount <= Len(signature.parameters)
           THEN signature.minArgumentCount ELSE Len(signature.parameters)
  IN  e.result.codeSnippet
        = e.call.label \o <<"(">> \o Placeholders(signature.parameters, k) \o <<")">>

\* nothing carries over: each snippet is made of the placeholders of its own
\* parameters, and a request served again has the outcome it had before
NothingCarriesOver ==
  /\ \A i \in 1..Len(served) : ReturnedArguments(served[i]) => OwnPlaceholders(served[i])
  /\ \A i, j \in 1..Len(served) :
       served[i].call = served[j].call => served[i].result = served[j].result

\* a step leaves the fields of the worker and what was served before as
\* they are, and serving a request leaves the data of the request as it is
FrameOfStep ==
  /\ _compilerOptions' = _compilerOptions
  /\ _extraLibs' = _extraLibs
  /\ pc = "request" => call' = call
  /\ Len(served') >= Len(served)
  /\ \A i \in 1..Len(served) : served'[i] = served[i]

====
